---------------------------- MODULE Spec2Model ----------------------------
(***************************************************************************)
(* Rise Bot front end: the Chat component (src/src/Chat.tsx) and the       *)
(* ApiService transport wrapper (src/unnamed/part_000).                    *)
(*                                                                         *)
(* Four specifications share this module:                                  *)
(*   Spec         the Chat component as an event-driven state machine      *)
(*                (typing, submit, request settlement, re-render);         *)
(*   SpecClassify isVideoUrl and the media render branch applied to URLs;  *)
(*   SpecExtract  extractVideoUrls applied to auxiliary payloads;          *)
(*   SpecPlayer   one mounted RTSPPlayer panel and its two handlers.       *)
(*                                                                         *)
(* JavaScript strings are TLA+ strings; every other JavaScript value is a  *)
(* tagged record (see Undefined, Null, Str, Arr, Obj).                     *)
(***************************************************************************)
EXTENDS Integers, Sequences, FiniteSets, TLC

VARIABLES
    messages,   \* Chat: useState<Message[]>            (Chat.tsx:158)
    input,      \* Chat: useState('')                    (Chat.tsx:161)
    isLoading,  \* Chat: useState(false)                 (Chat.tsx:162)
    threadId,   \* Chat: useState(() => `thread_${now}`) (Chat.tsx:163)
    view,       \* the state as of the last render: what the handlers close
                \* over and what the DOM attributes were computed from
    calls,      \* askQuestion calls awaiting settlement, oldest first
    lastCall,   \* history: the most recently settled askQuestion call
    lastEvent,  \* history: the event or handler of the last step
    url,        \* SpecClassify: the URL handed to the media render branch
    panel,      \* SpecClassify: the panel rendered for url
    toolData,   \* SpecExtract: the payload handed to extractVideoUrls
    extracted,  \* SpecExtract: what the call returned
    player,     \* RTSPPlayer: isPlaying, error, isLoading (Chat.tsx:14-16)
    canvasRef   \* RTSPPlayer: useRef<HTMLCanvasElement>(null) (Chat.tsx:13)

vars == <<messages, input, isLoading, threadId, view, calls, lastCall, lastEvent,
          url, panel, toolData, extracted, player, canvasRef>>

chatVars == <<messages, input, isLoading, threadId, view, calls, lastCall>>
classifyVars == <<url, panel>>
extractVars == <<toolData, extracted>>
playerVars == <<player, canvasRef>>
mediaVars == <<url, panel, toolData, extracted, player, canvasRef>>

----------------------------------------------------------------------------
(* JavaScript values *)

Undefined == [t |-> "undefined"]
Null == [t |-> "null"]
Str(s) == [t |-> "string", s |-> s]
Arr(a) == [t |-> "array", a |-> a]
Obj(o) == [t |-> "object", o |-> o]
Field(k, v) == [k |-> k, v |-> v]

\* typeof v === 'string'
isString(v) == v.t = "string"

\* Array.isArray(v)
isArray(v) == v.t = "array"

\* typeof v === 'object' && v !== null && !Array.isArray(v)
isPlainObject(v) == v.t = "object"

\* ToBoolean: undefined, null and '' are falsy; arrays and objects are truthy
truthy(v) ==
    CASE v.t = "undefined" -> FALSE
      [] v.t = "null" -> FALSE
      [] v.t = "string" -> v.s /= ""
      [] OTHER -> TRUE

\* obj[key]: the own property, or undefined (also for strings and arrays,
\* whose only own string keys are indices and length)
Get(obj, key) ==
    IF obj.t = "object" /\ \E i \in 1..Len(obj.o) : obj.o[i].k = key
    THEN obj.o[CHOOSE i \in 1..Len(obj.o) : obj.o[i].k = key].v
    ELSE Undefined

----------------------------------------------------------------------------
(* String helpers (String.prototype) *)

charAt(s, i) == SubSeq(s, i, i)

\* s.startsWith(p)
startsWith(s, p) == Len(s) >= Len(p) /\ SubSeq(s, 1, Len(p)) = p

\* s.includes(p)
includes(s, p) ==
    \E i \in 1..(Len(s) - Len(p) + 1) : SubSeq(s, i, i + Len(p) - 1) = p

UpperAlphabet == "ABCDEFGHIJKLMNOPQRSTUVWXYZ"
LowerAlphabet == "abcdefghijklmnopqrstuvwxyz"

lowerChar(c) ==
    IF \E i \in 1..Len(UpperAlphabet) : charAt(UpperAlphabet, i) = c
    THEN charAt(LowerAlphabet,
                CHOOSE i \in 1..Len(UpperAlphabet) : charAt(UpperAlphabet, i) = c)
    ELSE c

RECURSIVE toLowerCase(_)
\* s.toLowerCase()
toLowerCase(s) ==
    IF s = "" THEN ""
    ELSE lowerChar(charAt(s, 1)) \o toLowerCase(SubSeq(s, 2, Len(s)))

WhiteSpace == {" ", "\t", "\n"}

RECURSIVE trimStart(_)
trimStart(s) ==
    IF s /= "" /\ charAt(s, 1) \in WhiteSpace
    THEN trimStart(SubSeq(s, 2, Len(s)))
    ELSE s

RECURSIVE trimEnd(_)
trimEnd(s) ==
    IF s /= "" /\ charAt(s, Len(s)) \in WhiteSpace
    THEN trimEnd(SubSeq(s, 1, Len(s) - 1))
    ELSE s

\* s.trim()
trim(s) == trimEnd(trimStart(s))

----------------------------------------------------------------------------
(* ApiService.askQuestion (src/unnamed/part_000) *)

\* What fetch, and then response.json(), can deliver.  A body is either text
\* that is not JSON (Unparseable: response.json() rejects) or a JSON value.
Unparseable == [t |-> "unparseable"]
NetworkFailure == [kind |-> "failure"]
HttpResponse(status, body) == [kind |-> "response", status |-> status, body |-> body]

Error(name, message) == [name |-> name, message |-> message]
FetchTypeError == Error("TypeError", "Failed to fetch")
JsonSyntaxError == Error("SyntaxError", "Unexpected token in JSON")
NullReadTypeError == Error("TypeError", "Cannot read properties of null")

Fulfilled(value) == [state |-> "fulfilled", value |-> value]
Rejected(reason) == [state |-> "rejected", reason |-> reason]

\* Response.ok
responseOk(status) == 200 <= status /\ status <= 299

\* `HTTP error! status: ${response.status}`
genericStatusMessage(status) == "HTTP error! status: " \o ToString(status)

\* String(v) for the detail values the model draws (strings)
jsString(v) == IF isString(v) THEN v.s ELSE "[object Object]"

\* new Error(errorData.detail || `HTTP error! status: ${response.status}`)
httpError(errorData, status) ==
    IF errorData.t = "null"
    THEN NullReadTypeError
    ELSE Error("Error",
               IF truthy(Get(errorData, "detail"))
               THEN jsString(Get(errorData, "detail"))
               ELSE genericStatusMessage(status))

\* const requestData: ChatRequest = { thread_id: threadId, message: message }
requestData(message, thread) == [thread_id |-> thread, message |-> message]

\* The settlement of the promise askQuestion returns, given what the network
\* delivered.  Every throw inside the try block, the rejections of fetch and
\* of response.json() included, is caught, logged and rethrown unchanged.
askQuestion(fetched) ==
    IF fetched.kind = "failure"
    THEN Rejected(FetchTypeError)
    ELSE IF ~responseOk(fetched.status)
         THEN IF fetched.body = Unparseable
              THEN Rejected(JsonSyntaxError)
              ELSE Rejected(httpError(fetched.body, fetched.status))
         ELSE IF fetched.body = Unparseable
              THEN Rejected(JsonSyntaxError)
              ELSE Fulfilled(fetched.body)

----------------------------------------------------------------------------
(* Chat (src/src/Chat.tsx) *)

GreetingText ==
    "Hi there! I'm Rise Bot, your AI assistant. What can I help you with today?"
FallbackText ==
    "Sorry, I'm having trouble connecting to the server. Please try again later."

Message(id, text, sender, td) ==
    [id |-> id, text |-> text, sender |-> sender, toolData |-> td]

\* What a render captures: the handlers' closure and the DOM attributes
rendered(m, i, l) == [messages |-> m, input |-> i, isLoading |-> l]

\* <textarea disabled={isLoading}>
textareaDisabled(v) == v.isLoading

\* <button disabled={!input.trim() || isLoading}>
buttonDisabled(v) == trim(v.input) = "" \/ v.isLoading

\* Mutant of handleSendAccepts: the input is not examined
handleSendAccepts_anyInput(v) == ~v.isLoading

\* Mutant of appendMessage: the new message is put in front
appendMessage_prepend(prev, m) == <<m>> \o prev

\* setMessages(prev => [...prev, m])
appendMessage(prev, m) == Append(prev, m)

\* if (input.trim() && !isLoading)
handleSendAccepts(v) == trim(v.input) /= "" /\ ~v.isLoading

\* Mutant of loadingWhileAwaiting: the flag is not raised
loadingWhileAwaiting_notRaised == FALSE

\* setIsLoading(true) before the await
loadingWhileAwaiting == TRUE

\* Mutant of userMessageId: the id is the length itself
userMessageId_length(len) == len

\* id: messages.length + 1, with messages the closure's list
userMessageId(len) == len + 1

\* Mutant of botMessage: the catch block shows the error's own message
botMessage_errorText(len, promise) ==
    IF promise.state = "fulfilled" /\ promise.value.t /= "null"
    THEN Message(len + 2, Get(promise.value, "response"), "bot",
                 Get(promise.value, "tool_data"))
    ELSE IF promise.state = "rejected"
         THEN Message(len + 2, Str(promise.reason.message), "bot", Undefined)
         ELSE Message(len + 2, Str(FallbackText), "bot", Undefined)

\* The bot message handleSend appends once the awaited promise has settled:
\* the try block's botResponse, or the catch block's errorMessage (also when
\* reading response.response throws because the resolved value is null).
botMessage(len, promise) ==
    IF promise.state = "fulfilled" /\ promise.value.t /= "null"
    THEN Message(len + 2, Get(promise.value, "response"), "bot",
                 Get(promise.value, "tool_data"))
    ELSE Message(len + 2, Str(FallbackText), "bot", Undefined)

----------------------------------------------------------------------------
(* Chat.extractVideoUrls (src/src/Chat.tsx:166-215) *)

\* The number of arguments one call may pass.  urls.push(...nestedUrls)
\* spreads a nested result into arguments and raises a RangeError beyond the
\* engine's limit; for JSON payloads it is the statement of the try block
\* that can throw.  The engines' limits are in the tens of thousands; the
\* model scales the limit down with its payloads.
MaxCallArguments == 2

\* urls.push(...nestedUrls) throws
spreadThrows(n) == n > MaxCallArguments

RECURSIVE stringsOf(_)
\* arr.forEach(url => { if (typeof url === 'string') urls.push(url) })
stringsOf(arr) ==
    IF arr = <<>> THEN <<>>
    ELSE (IF isString(Head(arr)) THEN <<Head(arr).s>> ELSE <<>>) \o stringsOf(Tail(arr))

\* if (toolData.url && typeof toolData.url === 'string') urls.push(toolData.url)
directUrl(td) ==
    IF truthy(Get(td, "url")) /\ isString(Get(td, "url"))
    THEN <<Get(td, "url").s>>
    ELSE <<>>

\* if (toolData.urls && Array.isArray(toolData.urls)) toolData.urls.forEach(...)
directUrls(td) ==
    IF truthy(Get(td, "urls")) /\ isArray(Get(td, "urls"))
    THEN stringsOf(Get(td, "urls").a)
    ELSE <<>>

\* Mutant of videoFields: the feed fields are visited before the video fields
videoFields_reordered ==
    <<"feed_url", "feed_urls", "video_url", "video_urls",
      "stream_url", "stream_urls", "camera_url", "camera_urls">>

videoFields ==
    <<"video_url", "video_urls", "stream_url", "stream_urls",
      "feed_url", "feed_urls", "camera_url", "camera_urls">>

\* The body of videoFields.forEach for one field
fieldCandidates(td, field) ==
    IF truthy(Get(td, field))
    THEN IF isString(Get(td, field))
         THEN <<Get(td, field).s>>
         ELSE IF isArray(Get(td, field))
              THEN stringsOf(Get(td, field).a)
              ELSE <<>>
    ELSE <<>>

RECURSIVE videoFieldCandidates(_, _)
\* videoFields.forEach(field => ...), from the i-th field on
videoFieldCandidates(td, i) ==
    IF i > Len(videoFields) THEN <<>>
    ELSE fieldCandidates(td, videoFields[i]) \o videoFieldCandidates(td, i + 1)

\* Everything pushed before the pass over Object.values
sameLevelCandidates(td) ==
    directUrl(td) \o directUrls(td) \o videoFieldCandidates(td, 1)

\* Object.values(toolData): the property values in property order (the
\* elements of an array; the characters of a string, none of them an object)
objectValues(td) ==
    IF td.t = "object" THEN [i \in 1..Len(td.o) |-> td.o[i].v]
    ELSE IF td.t = "array" THEN td.a
    ELSE <<>>

RECURSIVE extractVideoUrls(_)
RECURSIVE nestedPass(_, _, _)
\* Object.values(toolData).forEach(value => ...) from the i-th value on, with
\* acc what the call has gathered so far: urls, and whether a nested call has
\* written its warning.  error: the pass was left by an exception.
nestedPass(values, i, acc) ==
    IF i > Len(values)
    THEN [urls |-> acc.urls, warned |-> acc.warned, error |-> FALSE]
    ELSE IF ~isPlainObject(values[i])
         THEN nestedPass(values, i + 1, acc)
         ELSE LET nested == extractVideoUrls(values[i])
              IN IF nested.threw \/ spreadThrows(Len(nested.urls))
                 THEN [urls |-> acc.urls,
                       warned |-> acc.warned \/ nested.warned,
                       error |-> TRUE]
                 ELSE nestedPass(values, i + 1,
                                 [urls |-> acc.urls \o nested.urls,
                                  warned |-> acc.warned \/ nested.warned])

\* The try block
tryBlock(td) ==
    nestedPass(objectValues(td), 1,
               [urls |-> sameLevelCandidates(td), warned |-> FALSE])

\* Mutant of extractVideoUrls: the catch block rethrows
extractVideoUrls_rethrow(td) ==
    IF ~truthy(td)
    THEN [urls |-> <<>>, warned |-> FALSE, threw |-> FALSE]
    ELSE LET b == tryBlock(td)
         IN [urls |-> b.urls, warned |-> b.warned \/ b.error, threw |-> b.error]

\* extractVideoUrls(toolData): the array returned (urls), whether the call or
\* a call nested in it caught an exception and wrote console.warn (warned),
\* and whether the call itself ended by throwing (threw): try/catch encloses
\* the whole traversal of one call, so it never does.
extractVideoUrls(td) ==
    IF ~truthy(td)
    THEN [urls |-> <<>>, warned |-> FALSE, threw |-> FALSE]
    ELSE LET b == tryBlock(td)
         IN [urls |-> b.urls, warned |-> b.warned \/ b.error, threw |-> FALSE]

----------------------------------------------------------------------------
(* Chat.isVideoUrl and the media render branch (src/src/Chat.tsx:218-248,
   346-417) *)

\* Mutant of videoExtensions: .3gp is missing
videoExtensions_short ==
    <<".mp4", ".webm", ".ogg", ".avi", ".mov", ".wmv", ".flv", ".mkv", ".m4v">>

videoExtensions ==
    <<".mp4", ".webm", ".ogg", ".avi", ".mov", ".wmv", ".flv", ".mkv", ".m4v", ".3gp">>

videoHosts == <<"youtube.com", "youtu.be", "vimeo.com", "twitch.tv", "stream", "video">>

\* list.some(p => lowerUrl.includes(p))
someIncluded(lowerUrl, list) == \E i \in 1..Len(list) : includes(lowerUrl, list[i])

\* Mutant of hasVideoKeywords: 'feed' is missing
hasVideoKeywords_noFeed(lowerUrl) ==
    \/ includes(lowerUrl, "video")
    \/ includes(lowerUrl, "stream")
    \/ includes(lowerUrl, "live")
    \/ includes(lowerUrl, "cam")
    \/ includes(lowerUrl, "rtsp")

hasVideoKeywords(lowerUrl) ==
    \/ includes(lowerUrl, "video")
    \/ includes(lowerUrl, "stream")
    \/ includes(lowerUrl, "live")
    \/ includes(lowerUrl, "cam")
    \/ includes(lowerUrl, "feed")
    \/ includes(lowerUrl, "rtsp")

\* isVideoUrl(url); url is a string, so nothing in the try block throws
isVideoUrl(u) ==
    IF startsWith(toLowerCase(u), "rtsp://")
    THEN TRUE
    ELSE \/ someIncluded(toLowerCase(u), videoExtensions)
         \/ hasVideoKeywords(toLowerCase(u))
         \/ someIncluded(toLowerCase(u), videoHosts)

\* Mutant of mediaPanel: the scheme test of the render branch is case-sensitive
mediaPanel_caseSensitive(u) ==
    IF isVideoUrl(u)
    THEN IF startsWith(u, "rtsp://") THEN "RTSPPlayer" ELSE "video"
    ELSE "link"

\* The element rendered for one media candidate: <RTSPPlayer>, <video>, or
\* the plain "Open in new tab" link
mediaPanel(u) ==
    IF isVideoUrl(u)
    THEN IF startsWith(toLowerCase(u), "rtsp://") THEN "RTSPPlayer" ELSE "video"
    ELSE "link"

----------------------------------------------------------------------------
(* Bounds and input domains of the chat specification *)

\* The conversation is explored up to this many messages.
MaxMessages == 5

\* Date.now() at mount
Clock == {1, 2}

\* Values the user can leave in the textarea
Inputs == {"", " ", "hi", " hi "}

\* Keyboard events: [key, shiftKey]
KeyEvents == {[key |-> "Enter", shiftKey |-> FALSE],
              [key |-> "Enter", shiftKey |-> TRUE],
              [key |-> "a", shiftKey |-> FALSE]}

Statuses == {200, 404, 500}

\* tool_data of the example response of the specification's section 8
ExampleToolData == Obj(<<Field("urls", Arr(<<Str("a.mp4"), Str("b")>>))>>)

Bodies ==
    { Unparseable,
      Null,
      Obj(<<>>),
      Obj(<<Field("detail", Str("bad thread"))>>),
      Obj(<<Field("detail", Str(""))>>),
      Obj(<<Field("response", Str("hi"))>>),
      Obj(<<Field("response", Str("hi")), Field("tool_data", ExampleToolData)>>) }

FetchResults ==
    {NetworkFailure} \cup {HttpResponse(st, b) : st \in Statuses, b \in Bodies}

NoCall == [settled |-> FALSE]

NoEvent == [kind |-> "none"]

\* No RTSPPlayer is mounted
NoPlayer == [mounted |-> FALSE]

----------------------------------------------------------------------------
(* Chat: state after construction, and the handlers *)

ChatInit ==
    /\ messages = <<Message(1, Str(GreetingText), "bot", Undefined)>>
    /\ input = ""
    /\ isLoading = FALSE
    /\ threadId \in {"thread_" \o ToString(now) : now \in Clock}
    /\ view = rendered(messages, input, isLoading)
    /\ calls = <<>>
    /\ lastCall = NoCall
    /\ lastEvent = NoEvent

ChatIdle ==
    /\ messages = <<>>
    /\ input = ""
    /\ isLoading = FALSE
    /\ threadId = ""
    /\ view = rendered(<<>>, "", FALSE)
    /\ calls = <<>>
    /\ lastCall = NoCall
    /\ lastEvent = NoEvent

\* onChange={(e) => setInput(e.target.value)}; a disabled textarea takes no
\* input.  A discrete event: React re-renders before the next event.
onChange(value) ==
    /\ ~textareaDisabled(view)
    /\ input' = value
    /\ view' = rendered(messages, value, isLoading)
    /\ lastEvent' = [kind |-> "onChange"]
    /\ UNCHANGED <<messages, isLoading, threadId, calls, lastCall, mediaVars>>

\* handleSend up to its await, run with the closure v of the render that
\* created it.  The ids come from the closure's messages.length, the appends
\* go through functional updates of the current state.
handleSend(v) ==
    IF handleSendAccepts(v)
    THEN /\ messages' = appendMessage(messages,
                            Message(userMessageId(Len(v.messages)), Str(v.input),
                                    "user", Undefined))
         /\ input' = ""
         /\ isLoading' = loadingWhileAwaiting
         /\ calls' = Append(calls, [request |-> requestData(v.input, threadId),
                                    len |-> Len(v.messages)])
         /\ view' = rendered(messages', input', isLoading')
         /\ UNCHANGED <<threadId, lastCall>>
    ELSE UNCHANGED chatVars

\* onKeyPress: Enter without Shift submits.  The handler is taken to be
\* callable in every state (the browser delivers no key event to a disabled
\* textarea, so this admits more than the browser does).
handleKeyPress(e) ==
    /\ Len(messages) + Len(calls) + 1 < MaxMessages
    /\ IF e.key = "Enter" /\ ~e.shiftKey
       THEN handleSend(view)
       ELSE UNCHANGED chatVars
    /\ lastEvent' = [kind |-> "onKeyPress", key |-> e.key, shiftKey |-> e.shiftKey]
    /\ UNCHANGED mediaVars

\* onClick={handleSend} of the send button, which the DOM disables
onClick ==
    /\ Len(messages) + Len(calls) + 1 < MaxMessages
    /\ ~buttonDisabled(view)
    /\ handleSend(view)
    /\ lastEvent' = [kind |-> "onClick"]
    /\ UNCHANGED mediaVars

\* The awaited askQuestion call i settles and handleSend resumes: try or
\* catch appends one bot message, finally clears the loading flag.  The
\* re-render these updates schedule happens later (Render).
Settle(i, fetched) ==
    /\ i \in 1..Len(calls)
    /\ LET call == calls[i]
           promise == askQuestion(fetched)
       IN /\ messages' = appendMessage(messages, botMessage(call.len, promise))
          /\ isLoading' = FALSE
          /\ calls' = SubSeq(calls, 1, i - 1) \o SubSeq(calls, i + 1, Len(calls))
          /\ lastCall' = [settled |-> TRUE, request |-> call.request,
                          fetched |-> fetched, promise |-> promise]
    /\ lastEvent' = [kind |-> "settle"]
    /\ UNCHANGED <<input, threadId, view, mediaVars>>

\* React commits the pending state updates
Render ==
    /\ view /= rendered(messages, input, isLoading)
    /\ view' = rendered(messages, input, isLoading)
    /\ lastEvent' = [kind |-> "render"]
    /\ UNCHANGED <<messages, input, isLoading, threadId, calls, lastCall, mediaVars>>

Next ==
    \/ \E value \in Inputs : onChange(value)
    \/ \E e \in KeyEvents : handleKeyPress(e)
    \/ onClick
    \/ \E i \in 1..Len(calls), fetched \in FetchResults : Settle(i, fetched)
    \/ Render

ClassifyIdle == url = "" /\ panel = "none"
ExtractIdle == toolData = Undefined /\ extracted = [run |-> FALSE]

PlayerIdle == player = NoPlayer /\ canvasRef = [current |-> Null]

Init == ChatInit /\ ClassifyIdle /\ ExtractIdle /\ PlayerIdle

Spec == Init /\ [][Next]_vars

----------------------------------------------------------------------------
(* The media render branch applied to one candidate URL *)

Schemes == {"", "rtsp://", "RTSP://", "RtSp://", "http://", "rtsp:/", "xrtsp://"}

UrlParts ==
    { "", "a", "b", "/x", "?q=1", ".html", ".txt", "example.org/",
      ".mp4", ".webm", ".ogg", ".avi", ".mov", ".wmv", ".flv", ".mkv", ".m4v", ".3gp",
      ".MP4", ".Mkv",
      "mp4", "webm", "ogg", "avi", "mov", "wmv", "flv", "mkv", "m4v", "3gp",
      "video", "stream", "live", "cam", "feed", "rtsp", "LIVE", "Feed",
      "youtube.com", "youtu.be", "vimeo.com", "twitch.tv", "Vimeo.com", "youtube" }

Urls == {sch \o p \o q : sch \in Schemes, p \in UrlParts, q \in UrlParts}

ClassifyInit == url \in Urls /\ panel = "none"

\* {isVideoUrl(url) ? (url.toLowerCase().startsWith('rtsp://') ? ... ) : ...}
renderCandidate ==
    /\ panel = "none"
    /\ panel' = mediaPanel(url)
    /\ UNCHANGED <<url, chatVars, lastEvent, extractVars, playerVars>>

InitClassify == ChatIdle /\ ClassifyInit /\ ExtractIdle /\ PlayerIdle

SpecClassify == InitClassify /\ [][renderCandidate]_vars

----------------------------------------------------------------------------
(* extractVideoUrls applied to one message's auxiliary payload *)

PayloadKeys == {"url", "urls", "video_url", "feed_urls", "outer"}

LeafValues ==
    { Str("a"), Str("b"), Str(""), Null,
      Arr(<<Str("a"), Str("b")>>),
      Arr(<<Str(""), Null, Obj(<<Field("url", Str("x"))>>), Str("a")>>) }

\* Innermost mappings, yielding 0 to 4 candidates
InnerPayloads ==
    { Obj(<<>>),
      Obj(<<Field("url", Str("a"))>>),
      Obj(<<Field("video_url", Str("x"))>>),
      Obj(<<Field("feed_urls", Str("b")), Field("url", Str("a"))>>),
      Obj(<<Field("urls", Arr(<<Str("a"), Str("b")>>)), Field("url", Str("a"))>>),
      Obj(<<Field("urls", Arr(<<Str("a"), Str("b")>>)),
            Field("video_url", Arr(<<Str("a"), Str("b")>>))>>) }

\* Mappings that hold an innermost mapping
MiddlePayloads ==
    {Obj(<<Field(k, v)>>) : k \in {"url", "outer"}, v \in InnerPayloads}
    \cup {Obj(<<Field("url", Str("a")), Field("outer", v)>>) : v \in InnerPayloads}

PayloadValues == LeafValues \cup InnerPayloads \cup MiddlePayloads

\* message.toolData: absent, or a mapping of up to two fields
Payloads ==
    {Undefined, Obj(<<>>)}
    \cup {Obj(<<Field(k, v)>>) : k \in PayloadKeys, v \in PayloadValues}
    \cup {Obj(<<Field(ks[1], v1), Field(ks[2], v2)>>) :
              ks \in {kk \in PayloadKeys \X PayloadKeys : kk[1] /= kk[2]},
              v1 \in PayloadValues, v2 \in PayloadValues}
    \cup {ExampleToolData}

ExtractInit == toolData \in Payloads /\ extracted = [run |-> FALSE]

\* const videoUrls = extractVideoUrls(message.toolData)
renderMessage ==
    /\ ~extracted.run
    /\ extracted' = [run |-> TRUE, result |-> extractVideoUrls(toolData)]
    /\ UNCHANGED <<toolData, chatVars, lastEvent, classifyVars, playerVars>>

InitExtract == ChatIdle /\ ClassifyIdle /\ ExtractInit /\ PlayerIdle

SpecExtract == InitExtract /\ [][renderMessage]_vars

----------------------------------------------------------------------------
(* RTSPPlayer (src/src/Chat.tsx:12-155): one mounted panel *)

ConnectedText == "WebRTC connection established - RTSP stream should appear here"
UnableText == "Unable to play RTSP stream directly in browser. Use external player."

\* The <canvas> element the ref is attached to
CanvasElement == [t |-> "element", tag |-> "canvas"]

\* The panel after its first render: useState(false), useState(null),
\* useState(false)
RTSPPlayerMounted ==
    [mounted |-> TRUE, isPlaying |-> FALSE, error |-> Null, isLoading |-> FALSE]

\* {isPlaying && !error ? (... <canvas ref={canvasRef} /> ...) : (placeholder)}
canvasRendered(p) == p.isPlaying /\ ~truthy(p.error)

\* React sets ref.current to the element on the commit that renders it, and
\* to null on the commit that does not
refAfterCommit(p) == [current |-> IF canvasRendered(p) THEN CanvasElement ELSE Null]

\* The "Start Live Stream" button is part of the placeholder branch and has
\* disabled={isLoading}
startButtonEnabled(p) == ~canvasRendered(p) /\ ~p.isLoading

\* {isPlaying && (... <button onClick={stopStream}>Stop</button> ...)}
stopButtonRendered(p) == p.isPlaying

\* The try / catch / finally of startStream, whose updates React commits
\* together: there is no await between them
streamStarted(p, hasWebRTC) ==
    IF hasWebRTC
    THEN [p EXCEPT !.isPlaying = TRUE, !.error = Str(ConnectedText), !.isLoading = FALSE]
    ELSE [p EXCEPT !.isPlaying = FALSE, !.error = Str(UnableText), !.isLoading = FALSE]

\* URLs the media render branch hands to an RTSPPlayer
PlayerUrls ==
    {u \in {sch \o p : sch \in {"rtsp://", "RTSP://", "RtSp://"}, p \in UrlParts} :
        mediaPanel(u) = "RTSPPlayer"}

PlayerInit ==
    /\ url \in PlayerUrls
    /\ panel = "RTSPPlayer"
    /\ player = RTSPPlayerMounted
    /\ canvasRef = refAfterCommit(player)

\* onClick={startStream}, with hasWebRTC the value of
\* 'RTCPeerConnection' in window
startStream(hasWebRTC) ==
    /\ player.mounted
    /\ startButtonEnabled(player)
    /\ IF ~truthy(canvasRef.current)
       THEN UNCHANGED playerVars
       ELSE /\ player' = streamStarted(player, hasWebRTC)
            /\ canvasRef' = refAfterCommit(player')
    /\ lastEvent' = [kind |-> "startStream", hasWebRTC |-> hasWebRTC]
    /\ UNCHANGED <<chatVars, url, panel, extractVars>>

\* stopStream.  The handler is taken to be callable in every state of the
\* panel (the Stop button that calls it is rendered only while
\* stopButtonRendered holds, so this admits more than the browser does).
stopStream ==
    /\ player.mounted
    /\ player' = [player EXCEPT !.isPlaying = FALSE, !.error = Null]
    /\ canvasRef' = refAfterCommit(player')
    /\ lastEvent' = [kind |-> "stopStream"]
    /\ UNCHANGED <<chatVars, url, panel, extractVars>>

NextPlayer ==
    \/ \E hasWebRTC \in BOOLEAN : startStream(hasWebRTC)
    \/ stopStream

InitPlayer == ChatIdle /\ ExtractIdle /\ PlayerInit

SpecPlayer == InitPlayer /\ [][NextPlayer]_vars

\* React commits every update it has scheduled
FairSpec == Spec /\ WF_vars(Render)

----------------------------------------------------------------------------
(* Properties of the chat *)

IsPrefix(a, b) == Len(a) <= Len(b) /\ SubSeq(b, 1, Len(a)) = a

LastMessage(ms) == ms[Len(ms)]

textOf(m) == IF isString(m.text) THEN m.text.s ELSE ""

\* The network answered with a status outside 200..299
NonOkResponse(f) == f.kind = "response" /\ ~responseOk(f.status)

\* The response body parses and carries a detail text
CarriesDetail(f) ==
    /\ f.kind = "response"
    /\ f.body.t = "object"
    /\ isString(Get(f.body, "detail"))
    /\ Get(f.body, "detail").s /= ""

\* C1: at most one askQuestion request is outstanding at any time, whatever
\* submits (click, Enter) and settlements have happened; a submit made while
\* a request is outstanding therefore starts no new request.
C1_AtMostOneOutstanding == Len(calls) <= 1

\* C1 witness: a second request is outstanding after an earlier exchange has
\* completed, with the controls rendered disabled.
C1_Witness ==
    /\ Len(calls) = 1
    /\ Len(messages) = 4
    /\ isLoading
    /\ textareaDisabled(view)

\* C2: every step of the chat leaves the previous message list as a prefix
\* of the new one: messages are only appended, never removed, reordered or
\* changed.
C2_AppendOnly == [][IsPrefix(messages, messages')]_vars

\* C2 witness: a conversation in which a send, a response and a failure have
\* all appended.
C2_Witness ==
    /\ Len(messages) >= 5
    /\ \E i \in 1..Len(messages) : messages[i].text = Str(FallbackText)
    /\ \E i \in 1..Len(messages) : messages[i].text = Str("hi") /\ messages[i].sender = "bot"

\* C3: an accepted submit appends the user's message and raises the loading
\* flag; the settlement of its request (success, HTTP error, network failure)
\* appends exactly one bot message - the response text on success, the fixed
\* fallback text when the call was rejected - and clears the loading flag;
\* and once no request is outstanding the textarea is eventually enabled.
C3_SubmitThenOneReply ==
    /\ [][/\ Len(calls') > Len(calls) =>
               /\ isLoading'
               /\ messages' = Append(messages, LastMessage(messages'))
               /\ LastMessage(messages').sender = "user"
               /\ LastMessage(messages').text = Str(view.input)
          /\ Len(calls') < Len(calls) =>
               /\ ~isLoading'
               /\ messages' = Append(messages, LastMessage(messages'))
               /\ LastMessage(messages').sender = "bot"
               /\ lastCall'.promise.state = "rejected" =>
                      LastMessage(messages').text = Str(FallbackText)
               /\ (lastCall'.promise.state = "fulfilled"
                   /\ lastCall'.promise.value.t = "object") =>
                      LastMessage(messages').text = Get(lastCall'.fetched.body, "response")
         ]_vars
    /\ [](calls = <<>> => <>(~textareaDisabled(view)))

\* C3 witness: a network failure has been answered with the fallback text and
\* the textarea is enabled again.
C3_Witness ==
    /\ lastCall.settled
    /\ lastCall.fetched = NetworkFailure
    /\ LastMessage(messages).text = Str(FallbackText)
    /\ LastMessage(messages).sender = "bot"
    /\ ~isLoading
    /\ ~textareaDisabled(view)

\* C4: after a non-2xx answer whose body carries a parseable detail text, the
\* bot message shown contains that detail text; after a non-2xx answer whose
\* body does not parse, it contains the generic status message.
C4_DetailShownInChat ==
    (lastCall.settled /\ NonOkResponse(lastCall.fetched) /\ calls = <<>>) =>
        /\ CarriesDetail(lastCall.fetched) =>
               includes(textOf(LastMessage(messages)),
                        Get(lastCall.fetched.body, "detail").s)
        /\ lastCall.fetched.body = Unparseable =>
               includes(textOf(LastMessage(messages)),
                        genericStatusMessage(lastCall.fetched.status))

\* C5: on a non-2xx status askQuestion never resolves; it rejects with the
\* server's detail as message when the body parses and carries one, and with
\* the generic status-code message (which contains the status) when parsing
\* the body fails.
C5_RejectsWithDetailOrGeneric ==
    (lastCall.settled /\ NonOkResponse(lastCall.fetched)) =>
        /\ lastCall.promise.state = "rejected"
        /\ CarriesDetail(lastCall.fetched) =>
               lastCall.promise.reason.message = Get(lastCall.fetched.body, "detail").s
        /\ lastCall.fetched.body = Unparseable =>
               /\ lastCall.promise.reason.message =
                      genericStatusMessage(lastCall.fetched.status)
               /\ includes(lastCall.promise.reason.message,
                           ToString(lastCall.fetched.status))

----------------------------------------------------------------------------
(* Properties of the media classification *)

upperChar(c) ==
    IF \E i \in 1..Len(LowerAlphabet) : charAt(LowerAlphabet, i) = c
    THEN charAt(UpperAlphabet,
                CHOOSE i \in 1..Len(LowerAlphabet) : charAt(LowerAlphabet, i) = c)
    ELSE c

\* pat (lower case) occurs in s at position i, in any letter case
MatchesIgnoringCase(s, i, pat) ==
    /\ i >= 1
    /\ i + Len(pat) - 1 <= Len(s)
    /\ \A j \in 1..Len(pat) :
           charAt(s, i + j - 1) \in {charAt(pat, j), upperChar(charAt(pat, j))}

BeginsIgnoringCase(s, pat) == MatchesIgnoringCase(s, 1, pat)
EndsIgnoringCase(s, pat) == MatchesIgnoringCase(s, Len(s) - Len(pat) + 1, pat)
ContainsIgnoringCase(s, pat) == \E i \in 1..Len(s) : MatchesIgnoringCase(s, i, pat)
EndsWith(s, pat) == Len(s) >= Len(pat) /\ SubSeq(s, Len(s) - Len(pat) + 1, Len(s)) = pat

ClaimedExtensions == {"mp4", "webm", "ogg", "avi", "mov", "wmv", "flv", "mkv", "m4v", "3gp"}
ClaimedKeywords == {"video", "stream", "live", "cam", "feed", "rtsp"}
ClaimedHosts == {"youtube.com", "youtu.be", "vimeo.com", "twitch.tv"}

\* C6: a URL that begins with rtsp:// in any letter case is rendered with
\* the RTSP placeholder panel, whatever extension, keyword or host it also
\* contains.
C6_RtspSchemeGivesRtspPanel ==
    (panel /= "none" /\ BeginsIgnoringCase(url, "rtsp://")) => panel = "RTSPPlayer"

\* C6 witness: a mixed-case rtsp URL that also carries a video extension has
\* been rendered as the RTSP panel.
C6_Witness ==
    /\ panel = "RTSPPlayer"
    /\ startsWith(url, "RtSp://")
    /\ EndsWith(url, ".mp4")

\* C7 as claimed: every URL ending in a recognized video file extension is
\* classified video (inline video element).
C7_ExtensionGivesVideo ==
    (panel /= "none" /\ \E e \in ClaimedExtensions : EndsWith(url, "." \o e))
        => panel = "video"

\* C7 amended: a URL ending in a recognized video file extension (in any
\* letter case) is classified video unless it begins with rtsp://, in which
\* case it is classified RTSP-stream.
C7_ExtensionGivesVideoUnlessRtsp ==
    (panel /= "none" /\ \E e \in ClaimedExtensions : EndsIgnoringCase(url, "." \o e))
        => panel = (IF BeginsIgnoringCase(url, "rtsp://") THEN "RTSPPlayer" ELSE "video")

\* C7 witness: a URL whose only video mark is its extension is rendered as a
\* video element.
C7_Witness == panel = "video" /\ url = "http://a.3gp"

\* C8 as claimed: a URL not beginning with rtsp:// is classified video
\* exactly when it contains one of the extensions mp4 ... 3gp, one of the
\* keywords or one of the host substrings, and non-media otherwise.
C8_VideoIffContainsListed ==
    (panel /= "none" /\ ~BeginsIgnoringCase(url, "rtsp://")) =>
        /\ panel \in {"video", "link"}
        /\ panel = "video" <=>
               \E p \in ClaimedExtensions \cup ClaimedKeywords \cup ClaimedHosts :
                   ContainsIgnoringCase(url, p)

\* C8 amended: a URL not beginning with rtsp:// is classified video exactly
\* when it contains, in any letter case, one of the extensions with its
\* leading dot (.mp4 ... .3gp), one of the keywords or one of the host
\* substrings, and non-media otherwise; the candidates of the example payload
\* {urls: ["a.mp4", "b"]} are video and non-media.
C8_VideoIffContainsDotted ==
    /\ (panel /= "none" /\ ~BeginsIgnoringCase(url, "rtsp://")) =>
           /\ panel \in {"video", "link"}
           /\ panel = "video" <=>
                  \E p \in {"." \o e : e \in ClaimedExtensions}
                           \cup ClaimedKeywords \cup ClaimedHosts :
                      ContainsIgnoringCase(url, p)
    /\ (panel /= "none" /\ url \in {"a.mp4", "b"}) =>
           /\ extractVideoUrls(ExampleToolData).urls = <<"a.mp4", "b">>
           /\ panel = (IF url = "a.mp4" THEN "video" ELSE "link")

\* C8 witness: a URL that contains an extension's letters without the dot,
\* and nothing else that is listed, has been rendered as a plain link.
C8_Witness == panel = "link" /\ url = "http://ogg/x"

----------------------------------------------------------------------------
(* Properties of the extraction *)

RECURSIVE Flatten(_)
Flatten(seqs) == IF seqs = <<>> THEN <<>> ELSE Head(seqs) \o Flatten(Tail(seqs))

IsStringValue(v) == v.t = "string"

\* The strings among the elements of a, in order
OnlyStrings(a) ==
    LET kept == SelectSeq(a, IsStringValue)
    IN [i \in 1..Len(kept) |-> kept[i].s]

\* The string at field k; an empty one counts only with keepEmpty
StringAt(td, k, keepEmpty) ==
    IF Get(td, k).t = "string" /\ (keepEmpty \/ Get(td, k).s /= "")
    THEN <<Get(td, k).s>>
    ELSE <<>>

\* The strings of the sequence at field k
StringsAt(td, k) == IF Get(td, k).t = "array" THEN OnlyStrings(Get(td, k).a) ELSE <<>>

ClaimedSynonyms ==
    <<"video_url", "video_urls", "stream_url", "stream_urls",
      "feed_url", "feed_urls", "camera_url", "camera_urls">>

RECURSIVE ClaimedOrder(_, _)
\* The order C9 describes: url, urls, the synonym fields, then the nested
\* mappings in field order
ClaimedOrder(td, keepEmpty) ==
    IF td.t /= "object" THEN <<>>
    ELSE StringAt(td, "url", keepEmpty)
         \o StringsAt(td, "urls")
         \o Flatten([i \in 1..Len(ClaimedSynonyms) |->
                        StringAt(td, ClaimedSynonyms[i], keepEmpty)
                        \o StringsAt(td, ClaimedSynonyms[i])])
         \o Flatten([i \in 1..Len(td.o) |->
                        IF td.o[i].v.t = "object"
                        THEN ClaimedOrder(td.o[i].v, keepEmpty)
                        ELSE <<>>])

\* C9 as claimed: when the traversal meets no error, the result is the string
\* at url, the strings of urls, the string or strings of each synonym field
\* in the fixed order, then the results of the nested mappings in field
\* order, with no de-duplication.
C9_ClaimedOrder ==
    (extracted.run /\ ~extracted.result.warned) =>
        extracted.result.urls = ClaimedOrder(toolData, TRUE)

\* C9 amended: as claimed, except that an empty string held directly by url
\* or by a synonym field is not a candidate (an empty string inside a
\* sequence is); {url: "a"} yields <<"a">> and {outer: {video_url: "x"}}
\* yields <<"x">>.
C9_OrderSkippingEmptyDirectStrings ==
    /\ (extracted.run /\ ~extracted.result.warned) =>
           extracted.result.urls = ClaimedOrder(toolData, FALSE)
    /\ (extracted.run /\ toolData = Obj(<<Field("url", Str("a"))>>)) =>
           extracted.result.urls = <<"a">>
    /\ (extracted.run
        /\ toolData = Obj(<<Field("outer", Obj(<<Field("video_url", Str("x"))>>))>>)) =>
           extracted.result.urls = <<"x">>

\* C9 witness: a payload with an empty url string and a nested mapping that
\* reaches the same URL through two fields has been traversed without error.
C9_Witness ==
    /\ extracted.run
    /\ ~extracted.result.warned
    /\ Get(toolData, "url") = Str("")
    /\ Get(toolData, "outer").t = "object"
    /\ extracted.result.urls = <<"a", "a">>

NestedIndexes(td) ==
    IF td.t = "object" THEN {i \in 1..Len(td.o) : td.o[i].v.t = "object"} ELSE {}

RECURSIVE AbortingTraversal(_, _)
\* The traversal C10 describes: the first error ends the whole traversal and
\* what was gathered until then is the result.  Two readings of "gathered":
\* with countAll, every candidate found so far; without, what had been
\* appended to the arrays of the calls in progress (results that could not
\* be appended are lost, as in the code).
AbortingTraversal(td, countAll) ==
    LET RECURSIVE Pass(_, _)
        Pass(i, acc) ==
            IF i > Len(td.o) THEN [urls |-> acc, err |-> FALSE]
            ELSE IF td.o[i].v.t /= "object" THEN Pass(i + 1, acc)
            ELSE LET r == AbortingTraversal(td.o[i].v, countAll)
                     fits == countAll \/ ~spreadThrows(Len(r.urls))
                 IN IF r.err \/ spreadThrows(Len(r.urls))
                    THEN [urls |-> IF fits THEN acc \o r.urls ELSE acc, err |-> TRUE]
                    ELSE Pass(i + 1, acc \o r.urls)
    IN IF td.t /= "object" THEN [urls |-> <<>>, err |-> FALSE]
       ELSE Pass(1, sameLevelCandidates(td))

\* C10 as claimed: no error reaches the caller, and an error at any depth
\* ends the whole traversal, the call returning exactly the candidates
\* gathered before it (under either reading of "gathered").
C10_WholeTraversalAborts ==
    extracted.run =>
        /\ ~extracted.result.threw
        /\ \/ extracted.result.urls = AbortingTraversal(toolData, TRUE).urls
           \/ extracted.result.urls = AbortingTraversal(toolData, FALSE).urls

\* The nested mappings of td whose results the call of td appends: those
\* before the first one whose results cannot be spread
AppendedIndexes(td) ==
    {i \in NestedIndexes(td) :
        \A k \in NestedIndexes(td) :
            k <= i => ~spreadThrows(Len(extractVideoUrls(td.o[k].v).urls))}

\* What one call returns, in terms of what its nested calls return
CallReturns(td, r) ==
    /\ ~r.threw
    /\ r.urls = sameLevelCandidates(td)
                \o Flatten([i \in 1..Len(td.o) |->
                               IF i \in AppendedIndexes(td)
                               THEN extractVideoUrls(td.o[i].v).urls
                               ELSE <<>>])
    /\ r.warned <=>
           \/ AppendedIndexes(td) /= NestedIndexes(td)
           \/ \E i \in AppendedIndexes(td) : extractVideoUrls(td.o[i].v).warned

\* C10 amended: no error reaches the caller of any call; an error ends only
\* the call that catches it, which returns what it had gathered (its own
\* candidates and the nested results appended so far), and the enclosing
\* calls go on with their remaining fields.
C10_OnlyTheCatchingCallAborts ==
    (extracted.run /\ toolData.t = "object") =>
        /\ CallReturns(toolData, extracted.result)
        /\ \A i \in NestedIndexes(toolData) :
               LET child == toolData.o[i].v
               IN /\ CallReturns(child, extractVideoUrls(child))
                  /\ \A j \in NestedIndexes(child) :
                         CallReturns(child.o[j].v, extractVideoUrls(child.o[j].v))

\* C10 witness: a nested call caught an error and returned nothing, and the
\* candidate of a later field is in the result.
C10_Witness ==
    /\ extracted.run
    /\ toolData.t = "object"
    /\ Len(toolData.o) = 2
    /\ toolData.o[1].v.t = "object"
    /\ extractVideoUrls(toolData.o[1].v).warned
    /\ extractVideoUrls(toolData.o[1].v).urls = <<>>
    /\ toolData.o[2].v = Obj(<<Field("url", Str("a"))>>)
    /\ extracted.result.urls = <<"a">>
    /\ ~extracted.result.threw

----------------------------------------------------------------------------
(* Properties of the message identifiers and of the submit handler *)

\* C12: in every state of the chat the i-th message of the conversation
\* (counting from 1) has id i, so the ids are pairwise distinct and strictly
\* increasing in conversation order.
C12_IdsAreSequenceNumbers ==
    /\ \A i \in 1..Len(messages) : messages[i].id = i
    /\ \A i, j \in 1..Len(messages) : i < j => messages[i].id < messages[j].id

\* C12 witness: two complete exchanges, one answered and one failed, have
\* numbered five messages.
C12_Witness ==
    /\ Len(messages) = 5
    /\ calls = <<>>
    /\ messages[5].id = 5 /\ messages[5].sender = "bot"
    /\ messages[4].id = 4 /\ messages[4].sender = "user"
    /\ messages[3].text = Str(FallbackText)
    /\ messages[5].text = Str("hi")

\* The step ran handleSend: a click on the send button, or Enter without Shift
IsSubmit(e) ==
    \/ e.kind = "onClick"
    \/ (e.kind = "onKeyPress" /\ e.key = "Enter" /\ ~e.shiftKey)

\* C13: a submit (click or Enter) whose input is empty or only white space
\* leaves the message list, the input text and the loading flag unchanged
\* and starts no request; a submit with other input while nothing is loading
\* appends one user message whose text is the input exactly as typed, starts
\* one request carrying that same text and the thread id, and clears the
\* input; the thread id never changes.
C13_BlankSubmitIsNoOp ==
    /\ [][IsSubmit(lastEvent') =>
            /\ trim(input) = "" =>
                   /\ messages' = messages
                   /\ input' = input
                   /\ isLoading' = isLoading
                   /\ calls' = calls
            /\ (trim(input) /= "" /\ ~isLoading) =>
                   /\ Len(messages') = Len(messages) + 1
                   /\ IsPrefix(messages, messages')
                   /\ LastMessage(messages').sender = "user"
                   /\ LastMessage(messages').text = Str(input)
                   /\ Len(calls') = Len(calls) + 1
                   /\ IsPrefix(calls, calls')
                   /\ calls'[Len(calls')].request =
                          [thread_id |-> threadId, message |-> input]
                   /\ input' = ""
         ]_vars
    /\ [][threadId' = threadId]_vars

\* C13 witness: after an exchange whose text " hi " was sent with its
\* surrounding blanks, Enter has been pressed on a blank input.
C13_Witness ==
    /\ IsSubmit(lastEvent)
    /\ lastEvent.kind = "onKeyPress"
    /\ input = " "
    /\ calls = <<>>
    /\ ~isLoading
    /\ Len(messages) = 3
    /\ messages[2].text = Str(" hi ")
    /\ lastCall.settled
    /\ lastCall.request = [thread_id |-> threadId, message |-> " hi "]

----------------------------------------------------------------------------
(* Properties of the RTSP placeholder panel *)

\* C11: startStream invoked on the panel in its initial state (in a browser
\* that has WebRTC) leaves isPlaying true, the static status message
\* displayed and isLoading false; stopStream leaves isPlaying false and the
\* message cleared.
C11_ConnectThenStop ==
    [][/\ (lastEvent'.kind = "startStream" /\ lastEvent'.hasWebRTC
           /\ player = RTSPPlayerMounted) =>
              /\ player'.isPlaying
              /\ player'.error = Str(ConnectedText)
              /\ ~player'.isLoading
       /\ lastEvent'.kind = "stopStream" =>
              /\ ~player'.isPlaying
              /\ player'.error = Null
      ]_vars

=============================================================================
